---------------------------- MODULE Spec2Model ----------------------------
(***************************************************************************)
(* A model of the inLive Python SDK: the Recorder (one output file, one    *)
(* MediaRecorder writer), the RoomRecorder session built on RTC, the       *)
(* server-sent-event handler of RTC and the RecorderManager registry.      *)
(*                                                                         *)
(* Each subsystem has its own specification over the shared variables:     *)
(*   SpecRec   one Recorder and its writer      (recorder.py, media.py)    *)
(*   SpecSSE   the event-stream loop of one RTC (rtc.py _event_handler)    *)
(*   SpecRoom  the tracks of one RoomRecorder   (recorder.py RoomRecorder) *)
(*   SpecRun   one RoomRecorder in use: tracks, start(), stop()            *)
(*   SpecLife  one RoomRecorder to its end: tracks ending, close()         *)
(*   SpecReg   RTC.register() of one session                               *)
(*   SpecConn  connect() calls and the _listen() loops of one session      *)
(*   SpecMgr   the RecorderManager and the close() of its sessions         *)
(*             (manager.py RecorderManager, rtc.py RTC.close)              *)
(*   SpecSig   the termination signals of the process and the end()       *)
(*             tasks their handlers create (manager.py __init__, end)      *)
(*   SpecIce   one connect() call and the transport's ICE gathering on     *)
(*             the cooperative scheduler, with fairness (rtc.py connect)   *)
(***************************************************************************)
EXTENDS Integers, Sequences, FiniteSets, TLC

(***************************************************************************)
(* Bounds of the model.                                                    *)
(***************************************************************************)
\* media tracks (odd ones are audio, even ones video)
MaxTracks == 2
\* start() calls made on one Recorder
MaxStarts == 2

\* tokens of the payload of a `data:` line of the event stream
MaxBody == 2

\* room sessions the RecorderManager constructs
MaxSessions == 2
\* close() calls made on the sessions, those of end() included
MaxCloses == 2

\* connect() calls made on one session
MaxConnects == 2

\* termination signals the process receives
MaxSignals == 2

\* iterations of the wait for ICE gathering that are told apart
MaxSpins == 2
\* other tasks of the process ready to run at one time
MaxReady == 2

\* None of a field that holds a track (Recorder.__init__)
NoTrack == 0

VARIABLES
    \* ---- one Recorder (recorder.py 37-134) with its writer (media.py 16-80)
    rec,             \* the Recorder: its fields and those of its MediaRecorder
    starts,          \* number of Recorder.start() calls made so far
    recLast,         \* last Recorder call and whether it raised: <<name, raised>>
    \* ---- the event-stream loop of one RTC session (rtc.py 228-380)
    pc,              \* self.pc: "open", "closed" (connectionState closed) or "none"
    listened,        \* RTC._listened: the _listen loop is running
    hpos,            \* where the loop is: "read" (awaiting a line), "left"
                     \* (awaiting close() for a `left` event) or "off"
    event,           \* _event_handler's local `event`: <<>> (None) or <<string>>
    data,            \* _event_handler's local `data`: <<>> (None) or <<string>>
    lastLine,        \* the line the loop took last, as received
    eventLine,       \* the `event:` line that set the pending event, as received
    dispatched,      \* what the last line dispatched: <<>> or <<[handler, payload]>>
    calls,           \* whom the last line's branch called: "transport", "server"
    \* ---- the tracks of one RoomRecorder (recorder.py 137-261, rtc.py 124-141)
    remoteDescription, \* pc.remoteDescription: <<>> (None) or <<media sections>>
    recorders,       \* RoomRecorder._recorders: msid -> <<>> or <<Recorder>>
    recorderKeys,    \* the keys of RoomRecorder._recorders in insertion order
    roomStarts,      \* number of RoomRecorder.start() calls made so far
    boundTo,         \* per track: the key of the recorder _handle_track bound
                     \* it to (the `recorder` of its on_ended), "" if none
    ownMsid,         \* per track: the msid the remote description gave the
                     \* track's own id when the track arrived, "" if none
    arrived,         \* the tracks the "track" event has delivered
    track_count,     \* RTC._track_count
    recordersChanged, \* number of "recorders_changed" emissions
    roomLast,        \* the last track delivered and how on_track ended
    \* ---- the RecorderManager and its sessions (manager.py, rtc.py 206-226)
    sess,            \* the RoomRecorder objects create_recorder constructed
    mgrRecorders,    \* RecorderManager.recorders, <<room_id, session>> in
                     \* insertion order
    endPc,           \* end(): "idle", "closing" (in `await recorder.close()`,
                     \* itself in `await self.pc.close()`) or "done"
    endItem,         \* end(): the <<room_id, recorder>> it popped
    endHeld,         \* the sessions the registry held when end() was called
    lastCreate,      \* what the last create_recorder returned, 0 = None
    \* ---- RTC.register of one session (rtc.py 382-409)
    client_id,       \* self.client_id: <<>> (None) or <<id>>
    regPc,           \* register(): "idle" or "posting" (awaiting the POST)
    regLast,         \* the answer the last register() got and how it ended
    \* ---- connect() and _listen() of one session (rtc.py 352-380, 411-491)
    conn,            \* per connect() call: where the coroutine is suspended
    connPc,          \* self.pc of the session: "open" or "none"
    listenFlag,      \* RTC._listened
    pendingListens,  \* _listen() coroutines scheduled and not yet run
    runningLoops,    \* _listen() coroutines inside their `while True`
    listenStarts,    \* number of _listen() coroutines connect() has started
    connLast,        \* the answer the connect() call resumed last was given
    dispatching,     \* _listen() loops suspended inside the handling of an event
    \* ---- the end of a RoomRecorder: tracks ending and close()
    \*      (rtc.py 134-141 and 206-226, recorder.py 247-261)
    endedTracks,     \* the tracks whose "ended" event has fired
    roomPc,          \* self.pc of the RoomRecorder: "open" or "none"
    closers,         \* close() calls suspended in `await self.pc.close()`
    listeners,       \* the subscriptions of the session are still in place
    closeLog,        \* the steps of the close() call that ran last
    endedView,       \* what a subscriber of "ended" saw at the last emission
    stoppedNote,     \* the sid of the "recording_stopped" the track that ended
                     \* last made the session emit, "" if it emitted none
    \* ---- the transport of a connected session failing
    \*      (rtc.py 430-437 and 206-226)
    stateHandlers,   \* on_connectionstatechange handlers registered on self.pc
    connState,       \* self.pc.connectionState: "new" or "failed"
    failedNotes,     \* "connectionstatechange" emissions carrying `failed`
    connClosers,     \* close() calls suspended in `await self.pc.close()`
    connEnded,       \* "ended" emissions of the session
    \* ---- the signal handlers of a RecorderManager (manager.py 27-42, 87-94)
    sigHandlers,     \* the constructor: "unbuilt", "installed" (handlers for
                     \* SIGINT and SIGTERM on the loop) or "absent" (no
                     \* running loop: RuntimeError, pass)
    sigRegistry,     \* RecorderManager.recorders: the sessions, in insertion
                     \* order
    sigOpen,         \* the sessions whose self.pc is not None
    sigReceived,     \* the signals the process has received, in order
    sigTasks,        \* per signal: the shutdown_signal() task its handler
                     \* created, "none" when the handler created none
    sigItem,         \* per task: the session whose close() its end() awaits,
                     \* 0 when it awaits none
    \* ---- one connect() call and the transport's ICE gathering
    \*      (rtc.py 411-491)
    iceConnect,      \* where connect() is: suspended at an await ("allow",
                     \* "offer", "local", "put", "remote"), running its wait
                     \* for gathering without a suspension ("spin"), "idle",
                     \* "done" or "failed"
    iceGatheringState, \* self.pc.iceGatheringState
    iceSpins,        \* iterations of the wait made so far
    iceLast,         \* the answer the connect() call was given last
    iceReady         \* the other tasks of the loop that are ready to run

recVars == <<rec, starts, recLast>>

sseVars == <<pc, listened, hpos, event, data, lastLine, eventLine, dispatched, calls>>

roomVars == <<remoteDescription, recorders, recorderKeys, roomStarts, boundTo, ownMsid,
              arrived, track_count, recordersChanged, roomLast>>

mgrVars == <<sess, mgrRecorders, endPc, endItem, endHeld, lastCreate>>

regVars == <<client_id, regPc, regLast>>

connVars == <<conn, connPc, listenFlag, pendingListens, runningLoops, listenStarts,
              connLast, dispatching>>

failVars == <<stateHandlers, connState, failedNotes, connClosers, connEnded>>

sigVars == <<sigHandlers, sigRegistry, sigOpen, sigReceived, sigTasks, sigItem>>

iceVars == <<iceConnect, iceGatheringState, iceSpins, iceLast, iceReady>>

lifeVars == <<endedTracks, roomPc, closers, listeners, closeLog, endedView,
              stoppedNote>>

vars == <<recVars, sseVars, roomVars, mgrVars, regVars, connVars, lifeVars, failVars, sigVars, iceVars>>

Tracks == 1..MaxTracks

(***************************************************************************)
(* MediaRecorder (the writer), as fields of the Recorder record:           *)
(*   container  "open" or "closed" (self.__container is None)              *)
(*   wtracks    self.__tracks: track -> "absent" | "idle" | "task"         *)
(***************************************************************************)
\* MediaRecorder.addTrack reads self.__container.format, so it raises once
\* the container has been closed; otherwise it registers the track with a
\* fresh context (task None).
WriterAddTrackRaises(r) == r.container = "closed"

WriterAddTrack(r, t) == [r EXCEPT !.wtracks[t] = "idle"]

\* MediaRecorder.start: a task for every registered track that has none.
WriterStart(r) ==
    [r EXCEPT !.wtracks =
        [t \in Tracks |-> IF r.wtracks[t] = "idle" THEN "task" ELSE r.wtracks[t]]]

\* MediaRecorder.stop: with an open container cancel the tasks, forget the
\* tracks and close the container; with a closed container do nothing.
WriterStop(r) ==
    IF r.container = "open"
      THEN [r EXCEPT !.wtracks = [t \in Tracks |-> "absent"], !.container = "closed"]
      ELSE r

(***************************************************************************)
(* Recorder.  Each method is an operator from the recorder to the recorder *)
(* it leaves behind and whether it raised.                                 *)
(***************************************************************************)
\* Recorder.__init__
NewRecorder ==
    [audio_track |-> NoTrack, video_track |-> NoTrack,
     is_started |-> FALSE, is_stopped |-> FALSE,
     container |-> "open", wtracks |-> [t \in Tracks |-> "absent"],
     writerStops |-> 0]

\* Recorder.add_audio_track: the field is assigned before the writer is asked.
RecAddAudio(r, t) ==
    LET bound == [r EXCEPT !.audio_track = t]
    IN  IF WriterAddTrackRaises(r)
          THEN [rec |-> bound, raised |-> TRUE]
          ELSE [rec |-> WriterAddTrack(bound, t), raised |-> FALSE]

\* Recorder.add_video_track
RecAddVideo(r, t) ==
    LET bound == [r EXCEPT !.video_track = t]
    IN  IF WriterAddTrackRaises(r)
          THEN [rec |-> bound, raised |-> TRUE]
          ELSE [rec |-> WriterAddTrack(bound, t), raised |-> FALSE]

\* Recorder.start: raises with no track bound, else starts the writer and
\* sets the two flags, whatever they were.
RecStart(r) ==
    IF r.audio_track = NoTrack /\ r.video_track = NoTrack
      THEN [rec |-> r, raised |-> TRUE]
      ELSE [rec |-> [WriterStart(r) EXCEPT !.is_started = TRUE, !.is_stopped = FALSE],
            raised |-> FALSE]

\* (a stop that forgets the started check: it would act before any start)
StopGuardIgnoringStarted(r) == ~r.is_stopped

\* The guard of Recorder.stop.
StopGuard(r) == r.is_started /\ ~r.is_stopped

\* Recorder.stop: only a started and not stopped recorder asks the writer
\* to stop and flips its flags; otherwise nothing happens.
RecStop(r) ==
    IF StopGuard(r)
      THEN [rec |-> [WriterStop(r) EXCEPT !.writerStops = r.writerStops + 1,
                                          !.is_stopped = TRUE,
                                          !.is_started = FALSE],
            raised |-> FALSE]
      ELSE [rec |-> r, raised |-> FALSE]

RecInit ==
    /\ rec = NewRecorder
    /\ starts = 0
    /\ recLast = <<"init", FALSE>>

add_audio_track(t) ==
    /\ rec' = RecAddAudio(rec, t).rec
    /\ recLast' = <<"add_audio_track", RecAddAudio(rec, t).raised>>
    /\ UNCHANGED starts

add_video_track(t) ==
    /\ rec' = RecAddVideo(rec, t).rec
    /\ recLast' = <<"add_video_track", RecAddVideo(rec, t).raised>>
    /\ UNCHANGED starts

start ==
    /\ starts < MaxStarts
    /\ starts' = starts + 1
    /\ rec' = RecStart(rec).rec
    /\ recLast' = <<"start", RecStart(rec).raised>>

stop ==
    /\ rec' = RecStop(rec).rec
    /\ recLast' = <<"stop", RecStop(rec).raised>>
    /\ UNCHANGED starts

RecNext ==
    \/ \E t \in Tracks : add_audio_track(t) /\ UNCHANGED <<sseVars, roomVars, mgrVars, regVars, connVars, lifeVars, failVars, sigVars, iceVars>>
    \/ \E t \in Tracks : add_video_track(t) /\ UNCHANGED <<sseVars, roomVars, mgrVars, regVars, connVars, lifeVars, failVars, sigVars, iceVars>>
    \/ start /\ UNCHANGED <<sseVars, roomVars, mgrVars, regVars, connVars, lifeVars, failVars, sigVars, iceVars>>
    \/ stop /\ UNCHANGED <<sseVars, roomVars, mgrVars, regVars, connVars, lifeVars, failVars, sigVars, iceVars>>

(***************************************************************************)
(* The event-stream loop: RTC._listen and RTC._event_handler.  A line is a *)
(* sequence of tokens; "event:" and "data:" are the two keywords, " " is   *)
(* white space, the others are words.                                      *)
(***************************************************************************)
RECURSIVE SeqsUpTo(_, _)
SeqsUpTo(S, n) ==
    IF n = 0 THEN {<<>>}
    ELSE LET shorter == SeqsUpTo(S, n - 1)
         IN  shorter \cup {Append(q, t) : q \in shorter, t \in S}

\* the event names the server may send: those of the hub's protocol, the
\* name the if/elif chain spells `allowed_renegotation`, and an unknown one
EventNames ==
    {"left", "offer", "candidate", "tracks_added", "tracks_available",
     "allowed_renegotiation", "allowed_renegotation", "ping", "message"}

\* the tokens of a payload: "{}" stands for a JSON document, "x" for text
\* that is not JSON
PayloadTok == {"{}", "x", " ", "data:"}

\* The lines the server may send: the blank line, `event:` with or without
\* white space and a name, `data:` with or without white space and a
\* payload of up to MaxBody tokens, and lines that start with neither.
EventLines ==
    {<<"event:">> \o pad \o name :
        pad \in {<<>>, <<" ">>}, name \in {<<>>} \cup {<<n>> : n \in EventNames}}

DataLines ==
    {<<"data:">> \o pad \o body :
        pad \in {<<>>, <<" ">>}, body \in SeqsUpTo(PayloadTok, MaxBody)}

OtherLines == {<<":">>, <<"x">>, <<" ", "event:", "offer">>, <<"id:", "data:">>}

Lines == {<<>>} \cup EventLines \cup DataLines \cup OtherLines

\* str.startswith(kw)
StartsWith(line, kw) == Len(line) > 0 /\ line[1] = kw

\* str.replace(kw, ""): every occurrence of kw goes, wherever it stands
Replace(line, kw) == SelectSeq(line, LAMBDA t : t # kw)

\* str.strip(): leading and trailing white space goes
Strip(str) ==
    LET keep == {i \in 1..Len(str) : str[i] # " "}
    IN  IF keep = {} THEN <<>>
        ELSE LET lo == CHOOSE i \in keep : \A j \in keep : i <= j
                 hi == CHOOSE i \in keep : \A j \in keep : j <= i
             IN  SubSeq(str, lo, hi)

\* line.replace("event:", "").strip() and line.replace("data:", "").strip()
ParseEvent(line) == Strip(Replace(line, "event:"))

ParseData(line) == Strip(Replace(line, "data:"))

\* the branches of the if/elif chain of _event_handler, by event name
DispatchTable ==
    {"left", "offer", "candidate", "tracks_added", "tracks_available",
     "allowed_renegotation"}

\* the branch an event name selects: its name, or "none" when no branch
\* compares equal to it (None and the empty string included)
HandlerOf(ev) ==
    IF ev # <<>> /\ Len(ev[1]) = 1 /\ ev[1][1] \in DispatchTable
      THEN ev[1][1] ELSE "none"

\* `data is not None and event != "ping"`
ShouldDispatch(ev, da) == da # <<>> /\ ev # << <<"ping">> >>

\* json.loads accepts the payload
ValidJson(payload) == payload = <<"{}">>

\* Whether a branch raises into _event_handler.  _negotiate parses its
\* argument before its try block, so `offer` raises on a payload that is
\* not JSON and the argument-less call of `allowed_renegotation` raises
\* always; the other branches raise on a payload that is not JSON or lacks
\* a field, and on a non-2xx answer (fails).
HandlerRaises(h, payload, fails) ==
    CASE h = "offer" -> ~ValidJson(payload)
      [] h = "allowed_renegotation" -> TRUE
      [] h \in {"candidate", "tracks_added", "tracks_available"} ->
            ~ValidJson(payload) \/ fails
      [] OTHER -> FALSE

\* The calls a branch makes to the transport (the PeerConnection) and to
\* the server before it returns or raises.
HandlerCalls(h, payload, fails) ==
    CASE h = "offer" ->
            IF ValidJson(payload) THEN {"transport", "server"} ELSE {}
      [] h = "candidate" ->
            IF ValidJson(payload) /\ ~fails THEN {"transport"} ELSE {}
      [] h \in {"tracks_added", "tracks_available"} ->
            IF ValidJson(payload) THEN {"server"} ELSE {}
      [] OTHER -> {}

SseInit ==
    /\ pc = "open"
    /\ listened = TRUE
    /\ hpos = "read"
    /\ event = <<>>
    /\ data = <<>>
    /\ lastLine = <<>>
    /\ eventLine = <<>>
    /\ dispatched = <<>>
    /\ calls = {}

\* _event_handler is left (break, end of stream or exception) and _listen
\* does not open another stream: _listened = False.
LoopExits ==
    /\ listened' = FALSE
    /\ hpos' = "off"
    /\ event' = <<>>
    /\ data' = <<>>
    /\ eventLine' = <<>>

\* (an else branch that forgets to reset the pending event)
EventAfterKeepingEvent(line) ==
    IF StartsWith(line, "event:") THEN << ParseEvent(line) >> ELSE event

\* the locals after the event:/data:/else chain of one line
EventAfter(line) ==
    IF StartsWith(line, "event:") THEN << ParseEvent(line) >>
    ELSE IF StartsWith(line, "data:") THEN event
    ELSE <<>>

DataAfter(line) ==
    IF StartsWith(line, "event:") THEN <<>>
    ELSE IF StartsWith(line, "data:") THEN << ParseData(line) >>
    ELSE <<>>

\* the locals are kept for the next line
KeepLocals(line) ==
    /\ event' = EventAfter(line)
    /\ data' = DataAfter(line)
    /\ eventLine' = IF StartsWith(line, "event:") THEN <<line>>
                    ELSE IF StartsWith(line, "data:") THEN eventLine
                    ELSE <<>>

\* One iteration of `async for line in response.aiter_lines()`.
HandleLine(line) ==
    /\ listened /\ hpos = "read"
    /\ lastLine' = line
    /\ IF line = <<>>
         THEN \* blank: continue
              /\ dispatched' = <<>> /\ calls' = {}
              /\ UNCHANGED <<pc, listened, hpos, event, data, eventLine>>
       ELSE IF ~StartsWith(line, "event:") /\ ~StartsWith(line, "data:")
         THEN \* any other line resets the pending pair: continue
              /\ KeepLocals(line)
              /\ dispatched' = <<>> /\ calls' = {}
              /\ UNCHANGED <<pc, listened, hpos>>
       ELSE IF pc = "none"
         THEN \* self.pc.connectionState on None raises; _listen breaks
              /\ dispatched' = <<>> /\ calls' = {}
              /\ LoopExits
              /\ UNCHANGED pc
       ELSE IF pc = "closed"
         THEN \* break; _listen sees the closed connection and breaks
              /\ dispatched' = <<>> /\ calls' = {}
              /\ LoopExits
              /\ UNCHANGED pc
       ELSE IF ~ShouldDispatch(EventAfter(line), DataAfter(line))
         THEN /\ KeepLocals(line)
              /\ dispatched' = <<>> /\ calls' = {}
              /\ UNCHANGED <<pc, listened, hpos>>
       ELSE LET h == HandlerOf(EventAfter(line))
                payload == DataAfter(line)[1]
            IN  /\ dispatched' = << [handler |-> h, payload |-> payload] >>
                /\ IF h = "left"
                     THEN \* await self.close(): suspended in pc.close()
                          /\ pc' = "closed"
                          /\ hpos' = "left"
                          /\ calls' = {"transport"}
                          /\ KeepLocals(line)
                          /\ UNCHANGED listened
                     ELSE \E fails \in BOOLEAN :
                          /\ calls' = HandlerCalls(h, payload, fails)
                          /\ IF HandlerRaises(h, payload, fails)
                               THEN LoopExits /\ UNCHANGED pc
                               ELSE /\ KeepLocals(line)
                                    /\ UNCHANGED <<pc, listened, hpos>>

\* The close() awaited for `left` returns: self.pc = None, "ended" is
\* emitted, then break, and _listen breaks on the missing connection.  When
\* the transport's close() raised (ok = FALSE) the exception leaves close()
\* before self.pc = None and ends _listen.
LeftCloseDone(ok) ==
    /\ hpos = "left"
    /\ pc' = IF ok THEN "none" ELSE pc
    /\ LoopExits
    /\ UNCHANGED <<lastLine, dispatched, calls>>

\* The server ends the stream: _event_handler returns and _listen, in its
\* `while True`, opens the stream again unless the connection is gone.
StreamEnds ==
    /\ listened /\ hpos = "read"
    /\ IF pc = "open"
         THEN /\ event' = <<>>
              /\ data' = <<>>
              /\ eventLine' = <<>>
              /\ UNCHANGED <<listened, hpos>>
         ELSE LoopExits
    /\ UNCHANGED <<pc, lastLine, dispatched, calls>>

\* A read error or the 60 s idle timeout: the exception ends _listen.
StreamError ==
    /\ listened /\ hpos = "read"
    /\ LoopExits
    /\ UNCHANGED <<pc, lastLine, dispatched, calls>>

\* close() called from another task: pc.close() closes the connection ...
SseCloseBegin ==
    /\ pc = "open"
    /\ pc' = "closed"
    /\ UNCHANGED <<listened, hpos, event, data, lastLine, eventLine, dispatched, calls>>

\* ... and, when it returns, close() sets self.pc = None.
SseCloseEnd ==
    /\ pc = "closed"
    /\ hpos # "left"
    /\ pc' = "none"
    /\ UNCHANGED <<listened, hpos, event, data, lastLine, eventLine, dispatched, calls>>

SseNext ==
    \/ \E line \in Lines : HandleLine(line) /\ UNCHANGED <<recVars, roomVars, mgrVars, regVars, connVars, lifeVars, failVars, sigVars, iceVars>>
    \/ \E ok \in BOOLEAN : LeftCloseDone(ok) /\ UNCHANGED <<recVars, roomVars, mgrVars, regVars, connVars, lifeVars, failVars, sigVars, iceVars>>
    \/ StreamEnds /\ UNCHANGED <<recVars, roomVars, mgrVars, regVars, connVars, lifeVars, failVars, sigVars, iceVars>>
    \/ StreamError /\ UNCHANGED <<recVars, roomVars, mgrVars, regVars, connVars, lifeVars, failVars, sigVars, iceVars>>
    \/ SseCloseBegin /\ UNCHANGED <<recVars, roomVars, mgrVars, regVars, connVars, lifeVars, failVars, sigVars, iceVars>>
    \/ SseCloseEnd /\ UNCHANGED <<recVars, roomVars, mgrVars, regVars, connVars, lifeVars, failVars, sigVars, iceVars>>

(***************************************************************************)
(* RoomRecorder: the tracks the transport delivers, resolved against the   *)
(* remote description.  A media section is its msid attribute split at     *)
(* white space: <<>> (no msid), <<stream>> or <<stream, track id>>.        *)
(***************************************************************************)
Streams == {"stream0", "stream1"}

\* track.kind
Kind(t) == IF t % 2 = 1 THEN "audio" ELSE "video"

\* the track ids a description may list: those of the tracks and one more
DescTrackIds == 1..(MaxTracks + 1)

ValidSections == {<<st, id>> : st \in Streams, id \in DescTrackIds}

\* a section without msid, and one whose msid has no track id
BadSections == {<<>>, <<"stream0">>}

\* The remote descriptions: sections that list the track ids in increasing
\* order, each id at most once, followed or not by one section without a
\* usable msid.
Descriptions ==
    LET valid == {d \in SeqsUpTo(ValidSections, MaxTracks + 1) :
                     \A i, j \in 1..Len(d) : i < j => d[i][2] < d[j][2]}
    IN  valid \cup {Append(d, b) : d \in valid, b \in BadSections}

\* The loop of get_track_msid from section i on: `track_id` is the
\* function's own parameter, which every section with a two-part msid
\* assigns; tracks_map is a function from track id to stream ("" = absent).
RECURSIVE ScanMedia(_, _, _, _)
ScanMedia(media, i, track_id, tracks_map) ==
    IF i > Len(media) THEN [track_id |-> track_id, tracks_map |-> tracks_map]
    ELSE IF Len(media[i]) = 2
      THEN ScanMedia(media, i + 1, media[i][2],
                     [tracks_map EXCEPT ![media[i][2]] = media[i][1]])
      ELSE ScanMedia(media, i + 1, track_id, tracks_map)

\* RoomRecorder.get_track_msid: "{}" (the empty dict) without a remote
\* description, else tracks_map[track_id] or "None".
GetTrackMsid(rd, id) ==
    IF rd = <<>> THEN "{}"
    ELSE LET scan == ScanMedia(rd[1], 1, id, [k \in DescTrackIds |-> ""])
         IN  IF scan.tracks_map[scan.track_id] # ""
               THEN scan.tracks_map[scan.track_id]
               ELSE "None"

\* the msid of the media section that lists the id, "" when the remote
\* description is missing or no section lists it
ListedMsid(rd, id) ==
    IF rd = <<>> THEN ""
    ELSE LET media == rd[1]
             at == {i \in 1..Len(media) : Len(media[i]) = 2 /\ media[i][2] = id}
         IN  IF at = {} THEN "" ELSE media[CHOOSE i \in at : TRUE][1]

\* RoomRecorder._handle_track from the lookup of the recorder on: the
\* recorders it leaves behind and whether it raised.
KeysAfter(recs, keys, msid) ==
    IF recs[msid] = <<>> THEN Append(keys, msid) ELSE keys

BindTrack(recs, msid, t) ==
    LET r == IF recs[msid] = <<>> THEN NewRecorder ELSE recs[msid][1]
        out == IF Kind(t) = "audio" THEN RecAddAudio(r, t) ELSE RecAddVideo(r, t)
    IN  [recorders |-> [recs EXCEPT ![msid] = << out.rec >>], raised |-> out.raised]

\* RoomRecorder.start: Recorder.start() for the values of _recorders in
\* their order; the first one that raises ends the loop.
RECURSIVE StartAll(_, _, _)
StartAll(recs, keys, i) ==
    IF i > Len(keys) THEN [recorders |-> recs, raised |-> FALSE]
    ELSE LET out == RecStart(recs[keys[i]][1])
         IN  IF out.raised
               THEN [recorders |-> recs, raised |-> TRUE]
               ELSE StartAll([recs EXCEPT ![keys[i]] = << out.rec >>], keys, i + 1)

\* (a stop() that returns after the first recorder)
RECURSIVE StopAllFirstOnly(_, _, _)
StopAllFirstOnly(recs, keys, i) ==
    IF i > Len(keys) \/ i > 1 THEN [recorders |-> recs, raised |-> FALSE]
    ELSE StopAllFirstOnly([recs EXCEPT ![keys[i]] = << RecStop(recs[keys[i]][1]).rec >>],
                          keys, i + 1)

\* RoomRecorder.stop: Recorder.stop() for the values of _recorders
RECURSIVE StopAll(_, _, _)
StopAll(recs, keys, i) ==
    IF i > Len(keys) THEN [recorders |-> recs, raised |-> FALSE]
    ELSE LET out == RecStop(recs[keys[i]][1])
         IN  IF out.raised
               THEN [recorders |-> recs, raised |-> TRUE]
               ELSE StopAll([recs EXCEPT ![keys[i]] = << out.rec >>], keys, i + 1)

RoomInit ==
    /\ remoteDescription = <<>>
    /\ recorders = [st \in Streams |-> <<>>]
    /\ recorderKeys = <<>>
    /\ roomStarts = 0
    /\ boundTo = [t \in Tracks |-> ""]
    /\ ownMsid = [t \in Tracks |-> ""]
    /\ arrived = {}
    /\ track_count = 0
    /\ recordersChanged = 0
    /\ roomLast = <<0, "none">>

\* d keeps the media sections of the description in force and adds some
Extends(d, rd) ==
    IF rd = <<>> THEN TRUE
    ELSE Len(d) > Len(rd[1]) /\ SubSeq(d, 1, Len(rd[1])) = rd[1]

\* pc.setRemoteDescription: the answer of connect() and, later, the offers
\* of _negotiate, each of which keeps the sections negotiated before
SetRemoteDescription(d) ==
    /\ Extends(d, remoteDescription)
    /\ remoteDescription' = <<d>>
    /\ UNCHANGED <<recorders, recorderKeys, roomStarts, boundTo, ownMsid, arrived,
                   track_count, recordersChanged, roomLast>>

\* The "track" event of the transport: on_track calls _handle_track and
\* counts the track unless _handle_track raised.
OnTrack(t) ==
    /\ t \notin arrived
    /\ arrived' = arrived \cup {t}
    /\ ownMsid' = [ownMsid EXCEPT ![t] = ListedMsid(remoteDescription, t)]
    /\ LET msid == GetTrackMsid(remoteDescription, t)
       IN  IF msid = "None"
             THEN \* logged and dropped: _handle_track returns
                  /\ track_count' = track_count + 1
                  /\ roomLast' = <<t, "dropped">>
                  /\ UNCHANGED <<recorders, recorderKeys, recordersChanged, boundTo>>
           ELSE IF msid = "{}"
             THEN \* self._recorders.get({}) raises: a dict is no key
                  /\ roomLast' = <<t, "raised">>
                  /\ UNCHANGED <<recorders, recorderKeys, track_count, recordersChanged,
                                 boundTo>>
           ELSE IF BindTrack(recorders, msid, t).raised
             THEN /\ recorders' = BindTrack(recorders, msid, t).recorders
                  /\ recorderKeys' = KeysAfter(recorders, recorderKeys, msid)
                  /\ roomLast' = <<t, "raised">>
                  /\ UNCHANGED <<track_count, recordersChanged, boundTo>>
           ELSE /\ recorders' = BindTrack(recorders, msid, t).recorders
                /\ recorderKeys' = KeysAfter(recorders, recorderKeys, msid)
                /\ recordersChanged' = recordersChanged + 1
                /\ track_count' = track_count + 1
                /\ boundTo' = [boundTo EXCEPT ![t] = msid]
                /\ roomLast' = <<t, "bound">>
    /\ UNCHANGED <<remoteDescription, roomStarts>>

\* RoomRecorder.start(); neither it nor Recorder.start() yields
RoomStart ==
    /\ roomStarts < MaxStarts
    /\ roomStarts' = roomStarts + 1
    /\ recorders' = StartAll(recorders, recorderKeys, 1).recorders
    /\ roomLast' = <<0, IF StartAll(recorders, recorderKeys, 1).raised
                          THEN "start raised" ELSE "start">>
    /\ UNCHANGED <<remoteDescription, recorderKeys, boundTo, ownMsid, arrived,
                   track_count, recordersChanged>>

\* RoomRecorder.stop(); neither it nor Recorder.stop() yields
RoomStop ==
    /\ recorders' = StopAll(recorders, recorderKeys, 1).recorders
    /\ roomLast' = <<0, IF StopAll(recorders, recorderKeys, 1).raised
                          THEN "stop raised" ELSE "stop">>
    /\ UNCHANGED <<remoteDescription, recorderKeys, roomStarts, boundTo, ownMsid,
                   arrived, track_count, recordersChanged>>

RoomNext ==
    \/ \E d \in Descriptions : SetRemoteDescription(d) /\ UNCHANGED <<recVars, sseVars, mgrVars, regVars, connVars, lifeVars, failVars, sigVars, iceVars>>
    \/ \E t \in Tracks : OnTrack(t) /\ UNCHANGED <<recVars, sseVars, mgrVars, regVars, connVars, lifeVars, failVars, sigVars, iceVars>>

\* the remote descriptions whose sections all carry a msid with the id of
\* one of the tracks
TrackDescriptions ==
    {d \in Descriptions : \A i \in 1..Len(d) : Len(d[i]) = 2 /\ d[i][2] \in Tracks}

\* the session in use: negotiated descriptions, tracks, start() and stop()
RunNext ==
    \/ \E d \in TrackDescriptions : SetRemoteDescription(d) /\ UNCHANGED <<recVars, sseVars, mgrVars, regVars, connVars, lifeVars, failVars, sigVars, iceVars>>
    \/ \E t \in Tracks : OnTrack(t) /\ UNCHANGED <<recVars, sseVars, mgrVars, regVars, connVars, lifeVars, failVars, sigVars, iceVars>>
    \/ RoomStart /\ UNCHANGED <<recVars, sseVars, mgrVars, regVars, connVars, lifeVars, failVars, sigVars, iceVars>>
    \/ RoomStop /\ UNCHANGED <<recVars, sseVars, mgrVars, regVars, connVars, lifeVars, failVars, sigVars, iceVars>>

(***************************************************************************)
(* The end of a RoomRecorder: the "ended" event of its tracks and close(). *)
(* close() is suspended only in `await self.pc.close()`; Recorder.stop()   *)
(* does not yield, so _on_close and the on_ended handlers run in one go.   *)
(***************************************************************************)
\* `recorder.is_started and not recorder.is_stopped`
Running(recs, st) ==
    recs[st] # <<>> /\ recs[st][1].is_started /\ ~recs[st][1].is_stopped

\* the steps of close(), each on the state of the session with the log of
\* the call: [pc, recorders, listeners, log, view]
StepNullPc(st) == [st EXCEPT !.pc = "none", !.log = Append(@, "pc_none")]

\* RoomRecorder._on_close: stop every recorder that is running
StepOnClose(st) ==
    [st EXCEPT !.recorders =
                  [k \in Streams |->
                      IF Running(st.recorders, k)
                        THEN << RecStop(st.recorders[k][1]).rec >>
                        ELSE st.recorders[k]],
               !.log = Append(@, "on_close")]

\* self.emit("ended"): the subscribers, if any are left, see the session
StepEmitEnded(st) ==
    [st EXCEPT !.view = [pc |-> st.pc,
                         running |-> {k \in Streams : Running(st.recorders, k)},
                         heard |-> st.listeners],
               !.log = Append(@, "ended")]

\* self.remove_all_listeners()
StepRemoveListeners(st) ==
    [st EXCEPT !.listeners = FALSE, !.log = Append(@, "listeners_removed")]

\* (a close() that tells its subscribers before it has cleaned up)
CloseStepsEmitFirst(st) ==
    StepRemoveListeners(StepOnClose(StepEmitEnded(st)))

\* close() from `self.on_ice_candidate = None` to its return
CloseSteps(st) ==
    StepRemoveListeners(StepEmitEnded(StepOnClose(st)))

\* the session as the steps of close() take it
SessionState(log) ==
    [pc |-> roomPc, recorders |-> recorders, listeners |-> listeners,
     log |-> log, view |-> endedView]

\* the session after the steps of close()
SessionBecomes(st) ==
    /\ roomPc' = st.pc
    /\ recorders' = st.recorders
    /\ listeners' = st.listeners
    /\ closeLog' = st.log
    /\ endedView' = st.view

\* a call of close() on a session whose recorders are recs, up to its
\* first suspension: with a transport it awaits the transport's close(),
\* without one it runs to its end
CloseCalled(recs) ==
    IF roomPc # "none"
      THEN /\ closers' = closers + 1
           /\ recorders' = recs
           /\ UNCHANGED <<roomPc, listeners, closeLog, endedView>>
      ELSE /\ SessionBecomes(CloseSteps([SessionState(<<>>) EXCEPT !.recorders = recs]))
           /\ UNCHANGED closers

LifeInit ==
    /\ endedTracks = {}
    /\ roomPc = "open"
    /\ closers = 0
    /\ listeners = TRUE
    /\ closeLog = <<>>
    /\ endedView = [pc |-> "open", running |-> {}, heard |-> FALSE]
    /\ stoppedNote = ""

\* The "ended" event of a track: the handler of _handle_track (when the
\* track was bound) stops the track's recorder if it is running, then the
\* handler of on_track counts the track down and, at zero, calls close().
TrackEnded(t) ==
    /\ t \in arrived \ endedTracks
    /\ endedTracks' = endedTracks \cup {t}
    /\ stoppedNote' = IF boundTo[t] # "" /\ Running(recorders, boundTo[t])
                        THEN boundTo[t] ELSE ""
    /\ LET recs == IF boundTo[t] # "" /\ Running(recorders, boundTo[t])
                     THEN [recorders EXCEPT ![boundTo[t]] =
                              << RecStop(recorders[boundTo[t]][1]).rec >>]
                     ELSE recorders
           count == IF track_count > 0 THEN track_count - 1 ELSE track_count
       IN  /\ track_count' = count
           /\ IF count = 0
                THEN CloseCalled(recs)
                ELSE /\ recorders' = recs
                     /\ UNCHANGED <<roomPc, closers, listeners, closeLog, endedView>>
    /\ UNCHANGED <<remoteDescription, recorderKeys, roomStarts, boundTo, ownMsid,
                   arrived, recordersChanged, roomLast>>

\* close() called by the owner of the session
RoomClose ==
    /\ closers < MaxCloses
    /\ CloseCalled(recorders)
    /\ UNCHANGED <<remoteDescription, recorderKeys, roomStarts, boundTo, ownMsid,
                   arrived, track_count, recordersChanged, roomLast, endedTracks,
                   stoppedNote>>

\* a suspended close() from the return of the transport's close() on; when
\* the transport's close() raised (ok = FALSE) the exception leaves close()
RoomCloseResume(ok) ==
    /\ closers > 0
    /\ closers' = closers - 1
    /\ IF ok
         THEN SessionBecomes(CloseSteps(StepNullPc(SessionState(<<"pc_close">>))))
         ELSE /\ closeLog' = <<"pc_close", "raised">>
              /\ UNCHANGED <<roomPc, recorders, listeners, endedView>>
    /\ UNCHANGED <<remoteDescription, recorderKeys, roomStarts, boundTo, ownMsid,
                   arrived, track_count, recordersChanged, roomLast, endedTracks,
                   stoppedNote>>

\* the remote descriptions of a room whose k-th media section carries the
\* k-th track
LifeDescriptions ==
    {d \in TrackDescriptions : \A i \in 1..Len(d) : d[i][2] = i}

\* The session from its first track to its end.  Its owner calls start()
\* once, and calls close() when no close() of its own is in flight; the
\* close() a track's end starts can still overlap the owner's.
LifeNext ==
    \/ \E d \in LifeDescriptions : SetRemoteDescription(d) /\ UNCHANGED <<recVars, sseVars, mgrVars, regVars, connVars, lifeVars, failVars, sigVars, iceVars>>
    \/ \E t \in Tracks : OnTrack(t) /\ UNCHANGED <<recVars, sseVars, mgrVars, regVars, connVars, lifeVars, failVars, sigVars, iceVars>>
    \/ roomStarts = 0 /\ RoomStart /\ UNCHANGED <<recVars, sseVars, mgrVars, regVars, connVars, lifeVars, failVars, sigVars, iceVars>>
    \/ \E t \in Tracks : TrackEnded(t) /\ UNCHANGED <<recVars, sseVars, mgrVars, regVars, connVars, failVars, sigVars, iceVars>>
    \/ closers = 0 /\ RoomClose /\ UNCHANGED <<recVars, sseVars, mgrVars, regVars, connVars, failVars, sigVars, iceVars>>
    \/ \E ok \in BOOLEAN : RoomCloseResume(ok) /\ UNCHANGED <<recVars, sseVars, mgrVars, regVars, connVars, failVars, sigVars, iceVars>>

(***************************************************************************)
(* RecorderManager and RTC.close().  A coroutine is suspended only where   *)
(* the code awaits something that yields: register()'s request and the     *)
(* transport's close().  _on_close of a session is taken not to yield.     *)
(***************************************************************************)
Rooms == {"room1", "room2"}

Sessions == 1..MaxSessions

NoSession == 0

\* a RoomRecorder object that has not been constructed yet
NoObject ==
    [status |-> "absent", room |-> "", pc |-> "open", hooked |-> FALSE,
     deleted |-> FALSE, closeCalls |-> 0, closing |-> 0, pcCloseCalls |-> 0,
     onCloseCalls |-> 0, endedEmits |-> 0]

\* dict operations on RecorderManager.recorders
Has(recs, room) == \E i \in 1..Len(recs) : recs[i][1] = room

\* self.recorders[room_id] = recorder: an existing key keeps its position
Put(recs, room, s) ==
    IF Has(recs, room)
      THEN [i \in 1..Len(recs) |->
               IF recs[i][1] = room THEN <<room, s>> ELSE recs[i]]
      ELSE Append(recs, <<room, s>>)

\* self.recorders.pop(room_id, None)
Remove(recs, room) == SelectSeq(recs, LAMBDA e : e[1] # room)

Held(recs) == {recs[i][2] : i \in 1..Len(recs)}

\* (create_recorder storing the session whether or not it registered)
AfterRegisterStoringAlways(recs, room, s, ok) == Put(recs, room, s)

\* create_recorder after register(): the insertion is skipped when
\* register() raised, the except branch touches nothing
AfterRegister(recs, room, s, ok) ==
    IF ok THEN Put(recs, room, s) ELSE recs

\* RTC.close() once the transport is out of the way: self.pc = None,
\* _on_close(), emit("ended") (the registry's hook, when still subscribed,
\* runs delete_recorder(room_id)), remove_all_listeners().
CloseTail(ss, recs, s) ==
    [sess |-> [ss EXCEPT ![s].pc = "none",
                         ![s].onCloseCalls = @ + 1,
                         ![s].endedEmits = @ + 1,
                         ![s].hooked = FALSE],
     recorders |-> IF ss[s].hooked THEN Remove(recs, ss[s].room) ELSE recs]

\* The loop of end() up to its next suspension or its return.
RECURSIVE SumCloseCalls(_, _)
SumCloseCalls(ss, n) ==
    IF n = 0 THEN 0 ELSE ss[n].closeCalls + SumCloseCalls(ss, n - 1)

RECURSIVE EndLoop(_, _)
EndLoop(ss, recs) ==
    IF Len(recs) = 0
      THEN [sess |-> ss, recorders |-> recs, pc |-> "done", item |-> <<>>]
      ELSE LET item == recs[Len(recs)]
               rest == SubSeq(recs, 1, Len(recs) - 1)
               s == item[2]
               called == [ss EXCEPT ![s].closeCalls = @ + 1]
           IN  IF ss[s].pc # "none"
                 THEN [sess |-> [called EXCEPT ![s].pcCloseCalls = @ + 1],
                       recorders |-> rest, pc |-> "closing", item |-> item]
                 ELSE LET after == CloseTail(called, rest, s)
                      IN  EndLoop(after.sess, Remove(after.recorders, item[1]))

MgrInit ==
    /\ sess = [s \in Sessions |-> NoObject]
    /\ mgrRecorders = <<>>
    /\ endPc = "idle"
    /\ endItem = <<>>
    /\ endHeld = {}
    /\ lastCreate = NoSession

\* create_recorder whose RoomRecorder(...) raises: None is returned
CreateConstructFails(room) ==
    /\ lastCreate' = NoSession
    /\ UNCHANGED <<sess, mgrRecorders, endPc, endItem, endHeld>>

\* create_recorder up to `await recorder.register()`
CreateBegin(room) ==
    /\ \E s \in Sessions :
          /\ sess[s].status = "absent"
          /\ \A k \in Sessions : k < s => sess[k].status # "absent"
          /\ sess' = [sess EXCEPT ![s].status = "registering", ![s].room = room]
    /\ UNCHANGED <<mgrRecorders, endPc, endItem, endHeld, lastCreate>>

\* create_recorder from the answer of register() to its return
CreateFinish(s, ok) ==
    /\ sess[s].status = "registering"
    /\ sess' = [sess EXCEPT ![s].status = IF ok THEN "ok" ELSE "failed",
                            ![s].hooked = ok]
    /\ mgrRecorders' = AfterRegister(mgrRecorders, sess[s].room, s, ok)
    /\ lastCreate' = IF ok THEN s ELSE NoSession
    /\ UNCHANGED <<endPc, endItem, endHeld>>

\* delete_recorder(room_id) called by the owner of the manager
DeleteRecorder(room) ==
    /\ mgrRecorders' = Remove(mgrRecorders, room)
    /\ sess' = [s \in Sessions |->
                  IF \E i \in 1..Len(mgrRecorders) : mgrRecorders[i] = <<room, s>>
                    THEN [sess[s] EXCEPT !.deleted = TRUE] ELSE sess[s]]
    /\ UNCHANGED <<endPc, endItem, endHeld, lastCreate>>

\* close() of a session called by whoever holds it or by one of its own
\* hooks, up to `await self.pc.close()`; all of it when self.pc is None
Close(s) ==
    /\ sess[s].status = "ok"
    /\ SumCloseCalls(sess, MaxSessions) < MaxCloses
    /\ IF sess[s].pc # "none"
         THEN /\ sess' = [sess EXCEPT ![s].closeCalls = @ + 1,
                                      ![s].pcCloseCalls = @ + 1,
                                      ![s].closing = @ + 1]
              /\ UNCHANGED mgrRecorders
         ELSE LET after == CloseTail([sess EXCEPT ![s].closeCalls = @ + 1],
                                     mgrRecorders, s)
              IN  /\ sess' = after.sess
                  /\ mgrRecorders' = after.recorders
    /\ UNCHANGED <<endPc, endItem, endHeld, lastCreate>>

\* such a close() from the return of the transport's close() on
CloseResume(s) ==
    /\ sess[s].closing > 0
    /\ LET after == CloseTail([sess EXCEPT ![s].closing = @ - 1], mgrRecorders, s)
       IN  /\ sess' = after.sess
           /\ mgrRecorders' = after.recorders
    /\ UNCHANGED <<endPc, endItem, endHeld, lastCreate>>

\* end() from its call to its first suspension
EndStart ==
    /\ endPc \in {"idle", "done", "raised"}
    /\ endHeld' = Held(mgrRecorders)
    /\ LET run == EndLoop(sess, mgrRecorders)
       IN  /\ sess' = run.sess
           /\ mgrRecorders' = run.recorders
           /\ endPc' = run.pc
           /\ endItem' = run.item
    /\ UNCHANGED lastCreate

\* end() from the return of the transport's close() to its next suspension;
\* when the transport's close() raised (ok = FALSE) the exception leaves
\* close() and end(), whose loop has no handler
EndResume(ok) ==
    /\ endPc = "closing"
    /\ IF ok
         THEN LET after == CloseTail(sess, mgrRecorders, endItem[2])
                  run == EndLoop(after.sess, Remove(after.recorders, endItem[1]))
              IN  /\ sess' = run.sess
                  /\ mgrRecorders' = run.recorders
                  /\ endPc' = run.pc
                  /\ endItem' = run.item
         ELSE /\ endPc' = "raised"
              /\ endItem' = <<>>
              /\ UNCHANGED <<sess, mgrRecorders>>
    /\ UNCHANGED <<endHeld, lastCreate>>

MgrNext ==
    \/ \E room \in Rooms : CreateConstructFails(room) /\ UNCHANGED <<recVars, sseVars, roomVars, regVars, connVars, lifeVars, failVars, sigVars, iceVars>>
    \/ \E room \in Rooms : CreateBegin(room) /\ UNCHANGED <<recVars, sseVars, roomVars, regVars, connVars, lifeVars, failVars, sigVars, iceVars>>
    \/ \E s \in Sessions, ok \in BOOLEAN : CreateFinish(s, ok) /\ UNCHANGED <<recVars, sseVars, roomVars, regVars, connVars, lifeVars, failVars, sigVars, iceVars>>
    \/ \E room \in Rooms : DeleteRecorder(room) /\ UNCHANGED <<recVars, sseVars, roomVars, regVars, connVars, lifeVars, failVars, sigVars, iceVars>>
    \/ \E s \in Sessions : Close(s) /\ UNCHANGED <<recVars, sseVars, roomVars, regVars, connVars, lifeVars, failVars, sigVars, iceVars>>
    \/ \E s \in Sessions : CloseResume(s) /\ UNCHANGED <<recVars, sseVars, roomVars, regVars, connVars, lifeVars, failVars, sigVars, iceVars>>
    \/ EndStart /\ UNCHANGED <<recVars, sseVars, roomVars, regVars, connVars, lifeVars, failVars, sigVars, iceVars>>
    \/ \E ok \in BOOLEAN : EndResume(ok) /\ UNCHANGED <<recVars, sseVars, roomVars, regVars, connVars, lifeVars, failVars, sigVars, iceVars>>

(***************************************************************************)
(* RTC.register().  An answer of the server is a status code and a body:   *)
(* a JSON document with data.client_id, a JSON document without it (an     *)
(* error document) or text that is not JSON.                               *)
(***************************************************************************)
StatusCodes == {199, 200, 204, 299, 300, 401, 500}

ClientIds == {"c1", "c2", "c3"}

Bodies ==
    {[json |-> TRUE, client_id |-> <<c>>] : c \in ClientIds}
    \cup {[json |-> TRUE, client_id |-> <<>>], [json |-> FALSE, client_id |-> <<>>]}

Responses == [status : StatusCodes, body : Bodies]

\* `resp.status_code >= 200 and resp.status_code < 300`
Is2xx(status) == status >= 200 /\ status < 300

\* (a register() that takes the client id from the body before it looks at
\* the status code)
RegisterStoringFirst(cid, resp) ==
    IF ~resp.body.json
      THEN [client_id |-> cid, outcome |-> "raised", value |-> <<"JSONDecodeError">>]
    ELSE IF resp.body.client_id = <<>>
      THEN [client_id |-> cid, outcome |-> "raised", value |-> <<"KeyError">>]
    ELSE IF Is2xx(resp.status)
      THEN [client_id |-> resp.body.client_id, outcome |-> "returned",
            value |-> resp.body.client_id]
    ELSE [client_id |-> resp.body.client_id, outcome |-> "raised",
          value |-> <<"Failed to register agent", resp.body>>]

\* register() from the answer of the POST on: the client_id it leaves, and
\* what it returns or raises.  resp.json() raises on a body that is not
\* JSON and ["data"]["client_id"] on a document without it.
Register(cid, resp) ==
    IF Is2xx(resp.status)
      THEN IF ~resp.body.json
             THEN [client_id |-> cid, outcome |-> "raised",
                   value |-> <<"JSONDecodeError">>]
           ELSE IF resp.body.client_id = <<>>
             THEN [client_id |-> cid, outcome |-> "raised", value |-> <<"KeyError">>]
           ELSE [client_id |-> resp.body.client_id, outcome |-> "returned",
                 value |-> resp.body.client_id]
      ELSE IF ~resp.body.json
             THEN [client_id |-> cid, outcome |-> "raised",
                   value |-> <<"JSONDecodeError">>]
             ELSE [client_id |-> cid, outcome |-> "raised",
                   value |-> <<"Failed to register agent", resp.body>>]

NoAnswer == [status |-> 0, body |-> [json |-> FALSE, client_id |-> <<>>]]

RegInit ==
    /\ client_id = <<>>
    /\ regPc = "idle"
    /\ regLast = [resp |-> NoAnswer, outcome |-> "none", value |-> <<>>]

\* register() up to `await fetch.post(...)`
RegisterBegin ==
    /\ regPc = "idle"
    /\ regPc' = "posting"
    /\ UNCHANGED <<client_id, regLast>>

\* register() from the answer to its return
RegisterFinish(resp) ==
    /\ regPc = "posting"
    /\ regPc' = "idle"
    /\ client_id' = Register(client_id, resp).client_id
    /\ regLast' = [resp |-> resp,
                   outcome |-> Register(client_id, resp).outcome,
                   value |-> Register(client_id, resp).value]

\* the POST itself fails (no answer): the exception leaves register()
RegisterNoAnswer ==
    /\ regPc = "posting"
    /\ regPc' = "idle"
    /\ regLast' = [resp |-> NoAnswer, outcome |-> "raised", value |-> <<"HTTPError">>]
    /\ UNCHANGED client_id

RegNext ==
    \/ RegisterBegin /\ UNCHANGED <<recVars, sseVars, roomVars, mgrVars, connVars, lifeVars, failVars, sigVars, iceVars>>
    \/ \E resp \in Responses : RegisterFinish(resp) /\ UNCHANGED <<recVars, sseVars, roomVars, mgrVars, connVars, lifeVars, failVars, sigVars, iceVars>>
    \/ RegisterNoAnswer /\ UNCHANGED <<recVars, sseVars, roomVars, mgrVars, connVars, lifeVars, failVars, sigVars, iceVars>>

(***************************************************************************)
(* RTC.connect() and RTC._listen().  A connect() call is suspended at each *)
(* of its awaits: "allow" (POST isallownegotiate), "offer" (createOffer),  *)
(* "local" (setLocalDescription), "put" (PUT negotiate) and "remote"       *)
(* (setRemoteDescription).  _listen() is handed to the event loop and      *)
(* first runs some time after connect() has scheduled it.                  *)
(***************************************************************************)
Connects == 1..MaxConnects

\* the await that follows the one a connect() call is suspended in
NextAwait(phase) ==
    CASE phase = "allow" -> "offer"
      [] phase = "offer" -> "local"
      [] phase = "local" -> "put"
      [] phase = "put" -> "remote"

\* no connect() call has resumed yet
NoResume == [c |-> 0, phase |-> "none", raised |-> FALSE, status |-> 0, answer |-> FALSE]

\* `if self._listened is False`
MayStartListen(flag) == flag = FALSE

ConnInit ==
    /\ conn = [c \in Connects |-> "idle"]
    /\ connPc = "open"
    /\ listenFlag = FALSE
    /\ pendingListens = 0
    /\ runningLoops = 0
    /\ listenStarts = 0
    /\ connLast = NoResume
    /\ dispatching = 0

FailInit ==
    /\ stateHandlers = 0
    /\ connState = "new"
    /\ failedNotes = 0
    /\ connClosers = 0
    /\ connEnded = 0

\* connect() up to `await fetch.post(... isallownegotiate ...)`: it
\* registers its handlers on self.pc, one more on_connectionstatechange
\* with every call; on a closed session self.pc.createDataChannel raises
\* and connect() returns
ConnectBegin(c) ==
    /\ conn[c] = "idle"
    /\ \A k \in Connects : k < c => conn[k] # "idle"
    /\ conn' = [conn EXCEPT ![c] = IF connPc = "none" THEN "failed" ELSE "allow"]
    /\ stateHandlers' = IF connPc = "none" THEN stateHandlers ELSE stateHandlers + 1
    /\ UNCHANGED <<connPc, listenFlag, pendingListens, runningLoops, listenStarts, connLast,
                   dispatching>>
    /\ UNCHANGED <<connState, failedNotes, connClosers, connEnded>>

\* the status codes of a complete answer of the server
FinalStatusCodes == {st \in StatusCodes : st >= 200}

\* what a connect() call gets back from an await: an exception (raised), the
\* status of the server's answer at the two requests, and at the PUT
\* whether the body carries an answer
Resume(c, phase, raised, status, answer) ==
    LET http == phase \in {"allow", "put"} /\ ~raised
    IN  [c |-> c, phase |-> phase, raised |-> raised,
         status |-> IF http THEN status ELSE 0,
         answer |-> http /\ phase = "put" /\ Is2xx(status) /\ answer]

\* what the awaits of a connect() call may give back
Resumes(c) ==
    {Resume(c, phase, raised, status, answer) :
        phase \in {"allow", "offer", "local", "put"}, raised \in BOOLEAN,
        status \in FinalStatusCodes, answer \in BOOLEAN}

\* (a connect() that goes on after a PUT the server rejected)
PhaseAfterIgnoringStatus(r) ==
    IF r.raised THEN "failed"
    ELSE IF r.phase = "allow" THEN (IF r.status > 299 THEN "failed" ELSE "offer")
    ELSE IF r.phase = "put" THEN (IF r.answer \/ ~Is2xx(r.status) THEN "remote"
                                  ELSE "done")
    ELSE NextAwait(r.phase)

\* where connect() is after the await returned: in its except branch
\* ("failed"), at its return ("done") or at the next await
PhaseAfter(r) ==
    IF r.raised THEN "failed"
    ELSE IF r.phase = "allow" THEN (IF r.status > 299 THEN "failed" ELSE "offer")
    ELSE IF r.phase = "put" THEN (IF ~Is2xx(r.status) THEN "failed"
                                  ELSE IF r.answer THEN "remote" ELSE "done")
    ELSE NextAwait(r.phase)

\* connect() from the return of one await to the next: an exception, a
\* status above 299 at the permission check or outside 2xx at the PUT end
\* it in its except branch, as does a transport that close() has removed;
\* the PUT answered 2xx without an answer ends it with nothing done
ConnectResume(c, r) ==
    /\ conn[c] \in {"allow", "offer", "local", "put"}
    /\ r.phase = conn[c]
    /\ connPc = "none" => r.raised
    /\ connLast' = r
    /\ conn' = [conn EXCEPT ![c] = PhaseAfter(r)]
    /\ UNCHANGED <<connPc, listenFlag, pendingListens, runningLoops, listenStarts,
                   dispatching>>

\* connect() from the return of setRemoteDescription to its return: the
\* check of _listened and run_coroutine_threadsafe(self._listen(), ...)
ConnectRemoteSet(c, ok) ==
    /\ conn[c] = "remote"
    /\ conn' = [conn EXCEPT ![c] = IF ok THEN "done" ELSE "failed"]
    /\ connLast' = Resume(c, "remote", ~ok, 0, FALSE)
    /\ IF ok /\ MayStartListen(listenFlag)
         THEN /\ pendingListens' = pendingListens + 1
              /\ listenStarts' = listenStarts + 1
         ELSE UNCHANGED <<pendingListens, listenStarts>>
    /\ UNCHANGED <<connPc, listenFlag, runningLoops, dispatching>>

\* _listen() from its first line to its first await: _listened = True, and
\* with the connection gone the loop is left at once and _listened = False
ListenBegin ==
    /\ pendingListens > 0
    /\ pendingListens' = pendingListens - 1
    /\ IF connPc = "none"
         THEN listenFlag' = FALSE /\ UNCHANGED runningLoops
         ELSE listenFlag' = TRUE /\ runningLoops' = runningLoops + 1
    /\ UNCHANGED <<conn, connPc, listenStarts, connLast, dispatching>>

\* a _listen() loop waiting for a line ends (stream error, closed
\* connection): _listened = False
ListenExit ==
    /\ runningLoops > dispatching
    /\ runningLoops' = runningLoops - 1
    /\ listenFlag' = FALSE
    /\ UNCHANGED <<conn, connPc, pendingListens, listenStarts, connLast, dispatching>>

\* A _listen() loop that is waiting for a line reads an event and its
\* _event_handler is suspended in a call the event's branch awaits.
DispatchBegin ==
    /\ dispatching < runningLoops
    /\ dispatching' = dispatching + 1
    /\ UNCHANGED <<conn, connPc, listenFlag, pendingListens, runningLoops, listenStarts,
                   connLast>>

\* The awaited call returns and the branch ends: the loop goes back to its
\* stream, or, when the branch raised, _listen ends with _listened = False.
DispatchEnd(raises) ==
    /\ dispatching > 0
    /\ dispatching' = dispatching - 1
    /\ IF raises
         THEN runningLoops' = runningLoops - 1 /\ listenFlag' = FALSE
         ELSE UNCHANGED <<runningLoops, listenFlag>>
    /\ UNCHANGED <<conn, connPc, pendingListens, listenStarts, connLast>>

\* close() of the session by its owner, with a transport that closes
\* without suspending it: self.pc = None, "ended"
ConnClose ==
    /\ connPc = "open"
    /\ connPc' = "none"
    /\ connEnded' = connEnded + 1
    /\ UNCHANGED <<conn, listenFlag, pendingListens, runningLoops, listenStarts, connLast,
                   dispatching>>
    /\ UNCHANGED <<stateHandlers, connState, failedNotes, connClosers>>

\* The transport's connectionState becomes `failed`: every registered
\* on_connectionstatechange runs up to its `await self.close()`, that is,
\* returns when self.pc is None, else emits the state and is suspended in
\* the transport's close().
ConnFailed ==
    /\ connState = "new"
    /\ connState' = "failed"
    /\ IF connPc = "none"
         THEN UNCHANGED <<failedNotes, connClosers>>
         ELSE /\ failedNotes' = failedNotes + stateHandlers
              /\ connClosers' = connClosers + stateHandlers
    /\ UNCHANGED <<conn, connPc, listenFlag, pendingListens, runningLoops, listenStarts,
                   connLast, dispatching>>
    /\ UNCHANGED <<stateHandlers, connEnded>>

\* a close() started by on_connectionstatechange from the return of the
\* transport's close() on: self.pc = None and "ended"; when the
\* transport's close() raised (ok = FALSE) the exception leaves close()
FailCloseResume(ok) ==
    /\ connClosers > 0
    /\ connClosers' = connClosers - 1
    /\ IF ok
         THEN connPc' = "none" /\ connEnded' = connEnded + 1
         ELSE UNCHANGED <<connPc, connEnded>>
    /\ UNCHANGED <<conn, listenFlag, pendingListens, runningLoops, listenStarts, connLast,
                   dispatching>>
    /\ UNCHANGED <<stateHandlers, connState, failedNotes>>

ConnNext ==
    \/ \E c \in Connects : ConnectBegin(c) /\ UNCHANGED <<recVars, sseVars, roomVars, mgrVars, regVars, lifeVars, sigVars, iceVars>>
    \/ \E c \in Connects : \E r \in Resumes(c) : ConnectResume(c, r) /\ UNCHANGED <<recVars, sseVars, roomVars, mgrVars, regVars, lifeVars, failVars, sigVars, iceVars>>
    \/ \E c \in Connects, ok \in BOOLEAN : ConnectRemoteSet(c, ok) /\ UNCHANGED <<recVars, sseVars, roomVars, mgrVars, regVars, lifeVars, failVars, sigVars, iceVars>>
    \/ ListenBegin /\ UNCHANGED <<recVars, sseVars, roomVars, mgrVars, regVars, lifeVars, failVars, sigVars, iceVars>>
    \/ ListenExit /\ UNCHANGED <<recVars, sseVars, roomVars, mgrVars, regVars, lifeVars, failVars, sigVars, iceVars>>
    \/ DispatchBegin /\ UNCHANGED <<recVars, sseVars, roomVars, mgrVars, regVars, lifeVars, failVars, sigVars, iceVars>>
    \/ \E raises \in BOOLEAN : DispatchEnd(raises) /\ UNCHANGED <<recVars, sseVars, roomVars, mgrVars, regVars, lifeVars, failVars, sigVars, iceVars>>
    \/ ConnClose /\ UNCHANGED <<recVars, sseVars, roomVars, mgrVars, regVars, lifeVars, sigVars, iceVars>>
    \/ ConnFailed /\ UNCHANGED <<recVars, sseVars, roomVars, mgrVars, regVars, lifeVars, sigVars, iceVars>>
    \/ \E ok \in BOOLEAN : FailCloseResume(ok) /\ UNCHANGED <<recVars, sseVars, roomVars, mgrVars, regVars, lifeVars, sigVars, iceVars>>

(***************************************************************************)
(* The termination signals.  RecorderManager.__init__ installs, on the     *)
(* running loop, one handler for SIGINT and one for SIGTERM; each delivery *)
(* of a signal runs the handler, which creates a task for                  *)
(* shutdown_signal(), i.e. end().                                          *)
(***************************************************************************)
SignalNames == {"SIGINT", "SIGTERM"}

Signals == 1..MaxSignals

SigInit ==
    /\ sigHandlers = "unbuilt"
    /\ sigRegistry = <<>>
    /\ sigOpen = {}
    /\ sigReceived = <<>>
    /\ sigTasks = [k \in Signals |-> "none"]
    /\ sigItem = [k \in Signals |-> NoSession]

\* RecorderManager(): inside a running loop the handlers are installed,
\* outside one get_running_loop() raises RuntimeError and none is
ManagerInit(hasLoop) ==
    /\ sigHandlers = "unbuilt"
    /\ sigHandlers' = IF hasLoop THEN "installed" ELSE "absent"
    /\ UNCHANGED <<sigRegistry, sigOpen, sigReceived, sigTasks, sigItem>>

\* create_recorder that succeeds: the session, whose transport exists, is
\* stored in the registry
SigCreateRecorder(s) ==
    /\ sigHandlers # "unbuilt"
    /\ s = Len(sigRegistry) + 1
    /\ sigReceived = <<>>
    /\ sigRegistry' = Append(sigRegistry, s)
    /\ sigOpen' = sigOpen \cup {s}
    /\ UNCHANGED <<sigHandlers, sigReceived, sigTasks, sigItem>>

\* The process receives a signal.  With the handlers installed the loop
\* runs the handler, asyncio.create_task(self.shutdown_signal()), whatever
\* was received before; without them the signal never reaches the manager.
Signal(sig) ==
    /\ sigHandlers # "unbuilt"
    /\ Len(sigReceived) < MaxSignals
    /\ sigReceived' = Append(sigReceived, sig)
    /\ sigTasks' = [sigTasks EXCEPT ![Len(sigReceived) + 1] =
                       IF sigHandlers = "installed"
                         THEN "scheduled" ELSE "none"]
    /\ UNCHANGED <<sigHandlers, sigRegistry, sigOpen, sigItem>>

\* The loop of end() up to its next suspension or its return: popitem()
\* takes the entry inserted last; close() of a session whose transport is
\* there suspends in `await self.pc.close()`, close() of one whose
\* transport is None returns without a suspension.
RECURSIVE SigEndLoop(_, _)
SigEndLoop(reg, open) ==
    IF Len(reg) = 0
      THEN [registry |-> reg, pc |-> "done", item |-> NoSession]
      ELSE LET s == reg[Len(reg)]
               rest == SubSeq(reg, 1, Len(reg) - 1)
           IN  IF s \in open
                 THEN [registry |-> rest, pc |-> "closing", item |-> s]
                 ELSE SigEndLoop(rest, open)

\* the task of a signal runs: shutdown_signal() calls end()
ShutdownBegin(k) ==
    /\ sigTasks[k] = "scheduled"
    /\ LET run == SigEndLoop(sigRegistry, sigOpen)
       IN  /\ sigRegistry' = run.registry
           /\ sigTasks' = [sigTasks EXCEPT ![k] = run.pc]
           /\ sigItem' = [sigItem EXCEPT ![k] = run.item]
    /\ UNCHANGED <<sigHandlers, sigOpen, sigReceived>>

\* the transport's close() awaited by the end() of a task returns
\* (self.pc = None, then the loop of end() goes on) or raises (ok = FALSE:
\* the exception ends the task)
ShutdownResume(k, ok) ==
    /\ sigTasks[k] = "closing"
    /\ IF ok
         THEN LET open == sigOpen \ {sigItem[k]}
                  run == SigEndLoop(SelectSeq(sigRegistry,
                                              LAMBDA e : e # sigItem[k]), open)
              IN  /\ sigOpen' = open
                  /\ sigRegistry' = run.registry
                  /\ sigTasks' = [sigTasks EXCEPT ![k] = run.pc]
                  /\ sigItem' = [sigItem EXCEPT ![k] = run.item]
         ELSE /\ sigTasks' = [sigTasks EXCEPT ![k] = "raised"]
              /\ sigItem' = [sigItem EXCEPT ![k] = NoSession]
              /\ UNCHANGED <<sigOpen, sigRegistry>>
    /\ UNCHANGED <<sigHandlers, sigReceived>>

SigNext ==
    \/ \E hasLoop \in BOOLEAN : ManagerInit(hasLoop) /\ UNCHANGED <<recVars, sseVars, roomVars, mgrVars, regVars, connVars, lifeVars, failVars, iceVars>>
    \/ \E s \in Sessions : SigCreateRecorder(s) /\ UNCHANGED <<recVars, sseVars, roomVars, mgrVars, regVars, connVars, lifeVars, failVars, iceVars>>
    \/ \E sig \in SignalNames : Signal(sig) /\ UNCHANGED <<recVars, sseVars, roomVars, mgrVars, regVars, connVars, lifeVars, failVars, iceVars>>
    \/ \E k \in Signals : ShutdownBegin(k) /\ UNCHANGED <<recVars, sseVars, roomVars, mgrVars, regVars, connVars, lifeVars, failVars, iceVars>>
    \/ \E k \in Signals, ok \in BOOLEAN : ShutdownResume(k, ok) /\ UNCHANGED <<recVars, sseVars, roomVars, mgrVars, regVars, connVars, lifeVars, failVars, iceVars>>

(***************************************************************************)
(* connect() and the ICE gathering of its transport.  All coroutines of    *)
(* the process run on one loop: a task runs from one await to the next,    *)
(* and the other tasks, the gathering of the transport among them, run     *)
(* only while it is suspended.                                             *)
(***************************************************************************)
\* the state after one more step of the transport's gathering
GatherStep(g) ==
    IF g = "new" THEN "gathering" ELSE "complete"

\* the loop is free for the other tasks: connect() is suspended at an await
\* or over; its `while True` (457-460) contains no await
LoopFree(at) == at # "spin"

\* `if self.pc.iceGatheringState == "complete": break`, then the PUT
AfterWaitTest(g) == IF g = "complete" THEN "put" ELSE "spin"

IceInit ==
    /\ iceConnect = "idle"
    /\ iceGatheringState = "new"
    /\ iceSpins = 0
    /\ iceLast = NoResume
    /\ iceReady = 0

\* connect() up to `await fetch.post(... isallownegotiate ...)`
IceConnectBegin ==
    /\ iceConnect = "idle"
    /\ iceConnect' = "allow"
    /\ UNCHANGED <<iceGatheringState, iceSpins, iceLast, iceReady>>

\* connect() from the answer of a request or of createOffer to the next
\* await
IceResume(r) ==
    /\ iceConnect \in {"allow", "offer", "put"}
    /\ r.phase = iceConnect
    /\ iceLast' = r
    /\ iceConnect' = PhaseAfter(r)
    /\ UNCHANGED <<iceGatheringState, iceSpins, iceReady>>

\* the gathering task of the transport runs one step: it starts with
\* setLocalDescription and needs the loop
TransportGather ==
    /\ iceConnect \notin {"idle", "allow", "offer"}
    /\ LoopFree(iceConnect)
    /\ iceGatheringState # "complete"
    /\ iceGatheringState' = GatherStep(iceGatheringState)
    /\ UNCHANGED <<iceConnect, iceSpins, iceLast, iceReady>>

\* setLocalDescription returns or raises; connect() goes on to the first
\* test of its wait and from there, gathering complete, to the PUT
IceLocalSet(raised) ==
    /\ iceConnect = "local"
    /\ iceLast' = Resume(1, "local", raised, 0, FALSE)
    /\ iceConnect' = IF raised THEN "failed"
                     ELSE AfterWaitTest(iceGatheringState)
    /\ UNCHANGED <<iceGatheringState, iceSpins, iceReady>>

\* one more iteration of the wait: the state is logged and tested again
IceSpin ==
    /\ iceConnect = "spin"
    /\ iceSpins' = IF iceSpins < MaxSpins THEN iceSpins + 1 ELSE iceSpins
    /\ iceConnect' = AfterWaitTest(iceGatheringState)
    /\ UNCHANGED <<iceGatheringState, iceLast, iceReady>>

\* connect() from the return of setRemoteDescription to its return
IceRemoteSet(ok) ==
    /\ iceConnect = "remote"
    /\ iceLast' = Resume(1, "remote", ~ok, 0, FALSE)
    /\ iceConnect' = IF ok THEN "done" ELSE "failed"
    /\ UNCHANGED <<iceGatheringState, iceSpins, iceReady>>

\* another task of the process becomes ready (a timer, a line of a
\* stream, a signal) ...
TaskReady ==
    /\ iceReady < MaxReady
    /\ iceReady' = iceReady + 1
    /\ UNCHANGED <<iceConnect, iceGatheringState, iceSpins, iceLast>>

\* ... and the loop, when it is free, runs it
TaskRun ==
    /\ iceReady > 0
    /\ LoopFree(iceConnect)
    /\ iceReady' = iceReady - 1
    /\ UNCHANGED <<iceConnect, iceGatheringState, iceSpins, iceLast>>

IceNext ==
    \/ IceConnectBegin /\ UNCHANGED <<recVars, sseVars, roomVars, mgrVars, regVars, connVars, lifeVars, failVars, sigVars>>
    \/ \E r \in Resumes(1) : IceResume(r) /\ UNCHANGED <<recVars, sseVars, roomVars, mgrVars, regVars, connVars, lifeVars, failVars, sigVars>>
    \/ TransportGather /\ UNCHANGED <<recVars, sseVars, roomVars, mgrVars, regVars, connVars, lifeVars, failVars, sigVars>>
    \/ \E raised \in BOOLEAN : IceLocalSet(raised) /\ UNCHANGED <<recVars, sseVars, roomVars, mgrVars, regVars, connVars, lifeVars, failVars, sigVars>>
    \/ IceSpin /\ UNCHANGED <<recVars, sseVars, roomVars, mgrVars, regVars, connVars, lifeVars, failVars, sigVars>>
    \/ \E ok \in BOOLEAN : IceRemoteSet(ok) /\ UNCHANGED <<recVars, sseVars, roomVars, mgrVars, regVars, connVars, lifeVars, failVars, sigVars>>
    \/ TaskReady /\ UNCHANGED <<recVars, sseVars, roomVars, mgrVars, regVars, connVars, lifeVars, failVars, sigVars>>
    \/ TaskRun /\ UNCHANGED <<recVars, sseVars, roomVars, mgrVars, regVars, connVars, lifeVars, failVars, sigVars>>

\* The loop runs every task that is ready, the server answers every
\* request and the transport completes what it was asked.
IceFairness ==
    /\ WF_iceVars(IceConnectBegin)
    /\ WF_iceVars(\E r \in Resumes(1) : IceResume(r))
    /\ WF_iceVars(TransportGather)
    /\ WF_iceVars(\E raised \in BOOLEAN : IceLocalSet(raised))
    /\ WF_iceVars(IceSpin)
    /\ WF_iceVars(\E ok \in BOOLEAN : IceRemoteSet(ok))
    /\ WF_iceVars(TaskRun)

(***************************************************************************)
(* The specifications.                                                     *)
(***************************************************************************)
Init == RecInit /\ SseInit /\ RoomInit /\ MgrInit /\ RegInit /\ ConnInit /\ LifeInit /\ FailInit /\ SigInit /\ IceInit

SpecRec == Init /\ [][RecNext]_vars

SpecSSE == Init /\ [][SseNext]_vars

SpecRoom == Init /\ [][RoomNext]_vars

SpecRun == Init /\ [][RunNext]_vars

SpecLife == Init /\ [][LifeNext]_vars

SpecMgr == Init /\ [][MgrNext]_vars

SpecReg == Init /\ [][RegNext]_vars

SpecConn == Init /\ [][ConnNext]_vars

SpecSig == Init /\ [][SigNext]_vars

SpecIce == Init /\ [][IceNext]_vars /\ IceFairness

(***************************************************************************)
(* Claims about the termination signals, checked under SpecSig.            *)
(***************************************************************************)
\* the signals whose handler created a task for end()
EndTasks == {k \in Signals : sigTasks[k] # "none"}

\* the tasks whose end() is in the middle of its drain
Draining == {k \in Signals : sigTasks[k] = "closing"}

\* C32: once the process of a manager that installed its handlers has
\* received termination signals, one or several, end() has been invoked
\* for the registry exactly once, and at most one drain of the registry is
\* running.
C32_EndInvokedOnce ==
    /\ (sigHandlers = "installed" /\ sigReceived # <<>>) =>
          Cardinality(EndTasks) = 1
    /\ Cardinality(Draining) <= 1

(***************************************************************************)
(* Claims about connect() on the scheduler, checked under SpecIce.         *)
(***************************************************************************)
\* C34: connect() terminates: whatever the gathering state is when the
\* local description has been set, the wait for "complete" lets the
\* transport get there, and a connect() that was called returns in the end.
C34_ConnectTerminates ==
    (iceConnect # "idle") ~> (iceConnect \in {"done", "failed"})

(***************************************************************************)
(* Claims about the Recorder, checked under SpecRec.                       *)
(***************************************************************************)
\* C2: a Recorder never goes from stopped back to started: once stop() has
\* set is_stopped, no later call makes is_started true or is_stopped false.
C2_NeverStoppedToStarted ==
    [][rec.is_stopped => (rec'.is_stopped /\ ~rec'.is_started)]_vars

FrameNames == DispatchTable \cup {"ping"}

\* `event: X` and `event:X` for an event name X
IsEventLineOf(line, X) == line = <<"event:", " ", X>> \/ line = <<"event:", X>>

\* the text D of a line `data: D` or `data:D`
DataText(line) ==
    IF Len(line) >= 2 /\ line[2] = " " THEN SubSeq(line, 3, Len(line))
    ELSE SubSeq(line, 2, Len(line))

\* C8: a frame `event: X`, `data: D`, blank line dispatches exactly one
\* event X with payload D when X is in the dispatch table, and a frame
\* whose event name is ping never dispatches anything: the event line and
\* the blank line dispatch nothing, and the data line that follows the
\* frame's event line (on a live connection) dispatches X with D itself.
C8_FrameDispatchesEventWithPayload ==
    [][HandleLine(lastLine') =>
          LET line == lastLine'
          IN  /\ (line = <<>> \/ StartsWith(line, "event:")) => dispatched' = <<>>
              /\ \A X \in FrameNames :
                   ( /\ pc = "open"
                     /\ eventLine # <<>> /\ IsEventLineOf(eventLine[1], X)
                     /\ StartsWith(line, "data:")
                     /\ Len(DataText(line)) > 0
                     /\ Strip(DataText(line)) = DataText(line) )
                   => IF X = "ping"
                        THEN dispatched' = <<>>
                        ELSE dispatched' =
                               << [handler |-> X, payload |-> DataText(line)] >>
      ]_vars

\* C9: a `data:` line with no pending event (none yet, or reset by a line
\* that is neither `event:`, `data:` nor blank) runs no handler of the
\* dispatch table and calls neither the transport nor the server; a line
\* of that other kind leaves no pending event and dispatches nothing.
C9_DataWithoutEventDispatchesNothing ==
    [][HandleLine(lastLine') =>
          LET line == lastLine'
          IN  /\ (StartsWith(line, "data:") /\ event = <<>>) =>
                    /\ \A i \in 1..Len(dispatched') : dispatched'[i].handler = "none"
                    /\ calls' = {}
                    /\ pc' = pc
              /\ (line # <<>> /\ ~StartsWith(line, "event:") /\ ~StartsWith(line, "data:")) =>
                    /\ event' = <<>> /\ data' = <<>>
                    /\ dispatched' = <<>>
                    /\ calls' = {}
      ]_vars

\* C9 witness: a `data:` line was taken with no pending event on a live
\* connection: the dispatch block was entered and no branch matched.
C9_Witness ==
    /\ listened /\ pc = "open"
    /\ StartsWith(lastLine, "data:")
    /\ event = <<>> /\ data # <<>>
    /\ dispatched # <<>> /\ dispatched[1].handler = "none"
    /\ calls = {}

\* C19: the `offer` branch never raises into the event loop: after an
\* `offer` event was dispatched, whatever its payload and whatever the
\* transport and the server answered, the loop is still reading events.
C19_OfferNeverEndsLoop ==
    [][HandleLine(lastLine') =>
          ((dispatched' # <<>> /\ dispatched'[1].handler = "offer")
             => (listened' /\ hpos' = "read"))]_vars

\* C20: an `allowed_renegotiation` event with a payload, on a live
\* connection, starts a negotiation: the transport is asked for a local
\* description, the server gets it, and the loop goes on.
C20_AllowedRenegotiationNegotiates ==
    [][HandleLine(lastLine') =>
          (( /\ pc = "open"
             /\ EventAfter(lastLine') = << <<"allowed_renegotiation">> >>
             /\ DataAfter(lastLine') # <<>>
             /\ DataAfter(lastLine')[1] # <<>> )
             => /\ dispatched' # <<>>
                /\ dispatched'[1].handler # "none"
                /\ calls' = {"transport", "server"}
                /\ listened')]_vars

\* C21: a `candidate`, `tracks_added` or `tracks_available` event whose
\* payload is not JSON, or whose call to the server is answered non-2xx,
\* is dropped alone: after its dispatch the loop is still reading events.
C21_HandlerErrorKeepsLoop ==
    [][HandleLine(lastLine') =>
          (( /\ dispatched' # <<>>
             /\ dispatched'[1].handler \in {"candidate", "tracks_added", "tracks_available"} )
             => (listened' /\ hpos' = "read"))]_vars

\* C22: when the stream ends, by the server, by a read error or timeout,
\* or by a `left` event, the loop is over: signaling is marked inactive
\* (_listened is False) and the session reads no stream any more.
C22_LoopExitIsFinal ==
    [][(StreamEnds \/ StreamError \/ \E ok \in BOOLEAN : LeftCloseDone(ok)) =>
          (~listened' /\ hpos' = "off")]_vars

\* C23: the close() a `left` event starts closes the session (the
\* transport reference is gone, which close() follows with "ended" in the
\* same step) and ends the loop; once the loop is over nothing more is
\* dispatched and no stream is read.
C23_LeftClosesAndStops ==
    /\ [][hpos = "left" => (pc' = "none" /\ ~listened' /\ hpos' = "off")]_vars
    /\ [][hpos = "off" =>
             (hpos' = "off" /\ ~listened' /\ dispatched' = dispatched)]_vars

\* C31: once close() has set the transport reference to None, no line of
\* the stream dispatches an event any more, and the loop is over at the
\* latest with the next line it reads.
C31_ClosedSessionLoopExits ==
    [][(pc = "none" /\ HandleLine(lastLine')) =>
          (dispatched' = <<>> /\ ~listened' /\ hpos' = "off")]_vars

\* C33: an `event:` line leads to at most one dispatch: when a line has
\* dispatched the pending event to a branch of the handler, a `data:` line
\* that comes next, with no `event:` line in between, dispatches nothing.
C33_EventLineDispatchesOnce ==
    [][( /\ dispatched # <<>>
         /\ dispatched[1].handler # "none"
         /\ HandleLine(lastLine')
         /\ StartsWith(lastLine', "data:") )
          => dispatched' = <<>>]_vars

(***************************************************************************)
(* Claims about the RoomRecorder, checked under SpecRoom.                  *)
(***************************************************************************)
\* C10: when an audio track and a video track whose msid in the remote
\* description (at their arrival) is the same value have both arrived, in either order, the
\* recorder of that msid exists and has its audio track and its video
\* track bound, and no recorder of another msid holds either track.
C10_SameMsidOneRecorderBothBound ==
    \A a, v \in arrived :
        ( /\ Kind(a) = "audio" /\ Kind(v) = "video"
          /\ ownMsid[a] # "" /\ ownMsid[a] = ownMsid[v] )
        => /\ recorders[ownMsid[a]] # <<>>
           /\ recorders[ownMsid[a]][1].audio_track # NoTrack
           /\ recorders[ownMsid[a]][1].video_track # NoTrack
           /\ \A st \in Streams \ {ownMsid[a]} :
                 recorders[st] # <<>> =>
                    /\ recorders[st][1].audio_track # a
                    /\ recorders[st][1].video_track # v

\* C17: a received track that is bound is bound to the recorder keyed by
\* the msid the remote description gives the track's own id, so two bound
\* tracks with different msids are in different recorders.
C17_TrackBoundToOwnMsid ==
    /\ \A t \in arrived :
          (ownMsid[t] # "" /\ boundTo[t] # "") => boundTo[t] = ownMsid[t]
    /\ \A t, u \in arrived :
          ( /\ ownMsid[t] # "" /\ ownMsid[u] # "" /\ ownMsid[t] # ownMsid[u]
            /\ boundTo[t] # "" /\ boundTo[u] # "" )
          => boundTo[t] # boundTo[u]

\* C18: a track that arrives while the remote description is missing or
\* lists its id in no media section is dropped: no recorder is created, no
\* recorder gets the track, and "recorders_changed" is not emitted.
C18_UnresolvedTrackDropped ==
    [][\A t \in Tracks :
          (OnTrack(t) /\ ListedMsid(remoteDescription, t) = "")
          => /\ recorders' = recorders
             /\ recorderKeys' = recorderKeys
             /\ boundTo'[t] = ""
             /\ recordersChanged' = recordersChanged]_vars

\* C11: start() leaves every recorder of the session started; stop()
\* leaves no recorder of the session started, and every recorder that was
\* started and not stopped has had its writer told to stop once more, its
\* container closed and is stopped; the other recorders are untouched.
C11_StartStopReachEveryRecorder ==
    /\ [][RoomStart => \A st \in Streams :
             recorders[st] # <<>> => Running(recorders', st)]_vars
    /\ [][RoomStop => \A st \in Streams :
             recorders[st] # <<>> =>
                /\ ~recorders'[st][1].is_started
                /\ IF Running(recorders, st)
                     THEN /\ recorders'[st][1].is_stopped
                          /\ recorders'[st][1].container = "closed"
                          /\ recorders'[st][1].writerStops =
                                recorders[st][1].writerStops + 1
                     ELSE recorders'[st] = recorders[st]]_vars

\* stop() after start() with two recorders that were both running
C11_Witness ==
    /\ roomLast = <<0, "stop">>
    /\ Len(recorderKeys) = 2
    /\ \A st \in Streams :
          /\ recorders[st] # <<>>
          /\ recorders[st][1].is_stopped
          /\ recorders[st][1].writerStops = 1
          /\ recorders[st][1].container = "closed"

(***************************************************************************)
(* Claims about the RecorderManager and RTC.close(), checked under         *)
(* SpecMgr.                                                                *)
(***************************************************************************)
\* a close() of session s is suspended in the transport's close()
CloseInFlight(s) ==
    \/ sess[s].closing > 0
    \/ endPc = "closing" /\ endItem[2] = s

\* C1: once close() has been called on a session one or more times and
\* every call has returned, "ended" has been emitted exactly once and the
\* transport's close() has been called exactly once.
C1_CloseNTimesEndsOnce ==
    \A s \in Sessions :
        (sess[s].closeCalls >= 1 /\ ~CloseInFlight(s))
        => (sess[s].endedEmits = 1 /\ sess[s].pcCloseCalls = 1)

\* C4: when end() returns, the registry is empty and every session the
\* registry held when end() was called (and nobody deleted by hand) has
\* been closed exactly once: one close() call, one transport close, one
\* "ended".
C4_EndClosesEachOnce ==
    [][(endPc # "done" /\ endPc' = "done")
       => /\ mgrRecorders' = <<>>
          /\ \A s \in endHeld' :
                ~sess'[s].deleted
                => /\ sess'[s].closeCalls = 1
                   /\ sess'[s].pcCloseCalls = 1
                   /\ sess'[s].endedEmits = 1]_vars

\* C5: whenever a session that create_recorder returned emits "ended",
\* the registry has no entry for the session's room id afterwards.
C5_EndedLeavesNoEntry ==
    [][\A s \in Sessions :
          (sess[s].status = "ok" /\ sess'[s].endedEmits > sess[s].endedEmits)
          => ~Has(mgrRecorders', sess[s].room)]_vars

\* C25: a close() called on a session while another close() of it is
\* suspended in the transport's close() does not close the session twice:
\* the transport's close() of a session is called at most once.
C25_OverlappingCloseClosesOnce ==
    \A s \in Sessions : sess[s].pcCloseCalls <= 1

\* C30: end() never ends in an exception of a session's close(), and when
\* it returns the registry is empty.
C30_EndNeverRaises ==
    /\ [](endPc # "raised")
    /\ [][(endPc # "done" /\ endPc' = "done") => mgrRecorders' = <<>>]_vars

\* C6: every entry of the registry is a session whose registration
\* succeeded, stored under its own room id; a create_recorder whose
\* registration fails returns None and leaves the registry as it was; one
\* whose registration succeeds stores the session under its room id and
\* returns it.
C6_CreateStoresOnlyOnSuccess ==
    /\ [](\A i \in 1..Len(mgrRecorders) :
             /\ sess[mgrRecorders[i][2]].status = "ok"
             /\ sess[mgrRecorders[i][2]].room = mgrRecorders[i][1])
    /\ [][\A s \in Sessions :
             (sess[s].status = "registering" /\ sess'[s].status = "failed")
             => (mgrRecorders' = mgrRecorders /\ lastCreate' = NoSession)]_vars
    /\ [][\A s \in Sessions :
             (sess[s].status = "registering" /\ sess'[s].status = "ok")
             => /\ \E i \in 1..Len(mgrRecorders') :
                      mgrRecorders'[i] = <<sess[s].room, s>>
                /\ lastCreate' = s]_vars

\* a create_recorder has failed while the registry held another session
C6_Witness ==
    /\ lastCreate = NoSession
    /\ Len(mgrRecorders) = 1
    /\ \E s \in Sessions :
          /\ sess[s].status = "failed"
          /\ s \notin Held(mgrRecorders)
          /\ sess[s].room = mgrRecorders[1][1]

\* a session create_recorder returned on which close() has not been called
Active(s) == sess[s].status = "ok" /\ sess[s].closeCalls = 0

\* C7: no two active sessions of the registry have the same room id, and
\* every active session nobody deleted by hand is the registry's entry for
\* its room id.
C7_OneActiveSessionPerRoomReachable ==
    /\ \A s, t \in Sessions :
          (s # t /\ Active(s) /\ Active(t)) => sess[s].room # sess[t].room
    /\ \A s \in Sessions :
          (Active(s) /\ ~sess[s].deleted)
          => \E i \in 1..Len(mgrRecorders) : mgrRecorders[i] = <<sess[s].room, s>>

(***************************************************************************)
(* Claims about RTC.register(), checked under SpecReg.                     *)
(***************************************************************************)
\* the order of the steps of close()
CloseOrder == <<"pc_close", "pc_none", "on_close", "ended", "listeners_removed">>

\* the position of a step in the order of close()
OrderIndex(step) == CHOOSE i \in 1..Len(CloseOrder) : CloseOrder[i] = step

\* a close() call that ran to its return in this step
CloseReturned ==
    /\ closeLog' # <<>>
    /\ closeLog'[Len(closeLog')] = "listeners_removed"
    /\ \/ closers' < closers
       \/ roomPc = "none" /\ RoomClose
       \/ roomPc = "none" /\ track_count' = 0 /\ \E t \in Tracks : TrackEnded(t)

\* C14: a close() that returns has run its steps in the order transport
\* closed and nulled, _on_close, "ended" emitted, subscriptions released;
\* at the emission of "ended" the transport reference is None and no
\* recorder is started-and-not-stopped, and none is when close() returns.
C14_CloseStepsInOrder ==
    [][CloseReturned =>
          /\ \A i, j \in 1..Len(closeLog') :
                i < j => OrderIndex(closeLog'[i]) < OrderIndex(closeLog'[j])
          /\ \E i \in 1..Len(closeLog') : closeLog'[i] = "on_close"
          /\ \E i \in 1..Len(closeLog') : closeLog'[i] = "ended"
          /\ roomPc' = "none"
          /\ endedView'.pc = "none"
          /\ endedView'.running = {}
          /\ ~listeners'
          /\ \A st \in Streams : ~Running(recorders', st)]_vars

\* a close() from the transport's close() on has returned, its subscribers
\* heard "ended", and both recorders of the session, started before, are
\* stopped
C14_Witness ==
    /\ closeLog = CloseOrder
    /\ endedView.heard
    /\ endedTracks = {}
    /\ \A st \in Streams :
          /\ recorders[st] # <<>>
          /\ recorders[st][1].is_stopped
          /\ recorders[st][1].writerStops = 1

\* a step of the close() call logged last
Logged(log, step) == \E i \in 1..Len(log) : log[i] = step

\* C15: a close() that comes back from the transport's close(), failed or
\* not, does not raise: it runs _on_close, emits "ended" and leaves the
\* session without its transport reference.
C15_CloseNeverRaises ==
    [][closers' < closers =>
          /\ ~Logged(closeLog', "raised")
          /\ Logged(closeLog', "on_close")
          /\ Logged(closeLog', "ended")
          /\ roomPc' = "none"]_vars

\* the received tracks that have not ended
LiveTracks(arr, ended) == arr \ ended

\* C16: _track_count is the number of received tracks that have not ended,
\* whether or not _handle_track succeeded on them, and the end of a track
\* makes the session call close() exactly when no received track is left
\* live.
C16_CountIsLiveTracks ==
    /\ [](track_count = Cardinality(LiveTracks(arrived, endedTracks)))
    /\ [][(\E t \in Tracks : TrackEnded(t)) =>
             (track_count' = 0 <=> LiveTracks(arrived', endedTracks') = {})]_vars

C12_RegisterStoresOnlyOn2xx ==
    [][(regPc = "posting" /\ regPc' = "idle" /\ regLast'.resp # NoAnswer) =>
          LET resp == regLast'.resp
          IN  /\ (Is2xx(resp.status) /\ resp.body.client_id # <<>>)
                    => /\ client_id' = resp.body.client_id
                       /\ regLast'.outcome = "returned"
                       /\ regLast'.value = resp.body.client_id
              /\ ~Is2xx(resp.status)
                    => /\ client_id' = client_id
                       /\ regLast'.outcome = "raised"
                       /\ resp.body.json
                            => regLast'.value = <<"Failed to register agent", resp.body>>]_vars

\* a register() has failed with a server error on a session that had been
\* registered before
C12_Witness ==
    /\ regPc = "idle"
    /\ client_id = <<"c1">>
    /\ regLast.outcome = "raised"
    /\ regLast.resp.status = 401
    /\ regLast.resp.body = [json |-> TRUE, client_id |-> <<"c2">>]

(***************************************************************************)
(* Claims about connect() and _listen(), checked under SpecConn.           *)
(***************************************************************************)
\* C24: on a session connect() was called on, the transport becoming
\* `failed` notifies the subscribers of that state once and starts one
\* close(), and the close() it started leaves the session closed with one
\* "ended" emitted.
C24_FailedClosesOnce ==
    /\ [][(connState = "new" /\ connState' = "failed" /\ stateHandlers > 0 /\ connPc = "open")
            => (failedNotes' = failedNotes + 1 /\ connClosers' = connClosers + 1)]_vars
    /\ [][connClosers' < connClosers => (connPc' = "none" /\ connEnded' = 1)]_vars

C28_UnregisteredCannotConnect ==
    [][client_id = <<>> =>
          /\ \A c \in Connects :
                conn'[c] \in {"allow", "put"} => conn'[c] = conn[c]
          /\ listenStarts' = listenStarts]_vars

\* C26: the events of one session are handled one at a time: at no moment
\* are two handlings of events of the session in progress.
C26_OneEventAtATime == dispatching <= 1

\* C13: whatever connect() calls are made on a session, one _listen()
\* coroutine at most is ever started for it, and two are never started or
\* running at the same time.
C13_ListenStartedOnce ==
    /\ listenStarts <= 1
    /\ pendingListens + runningLoops <= 1

=============================================================================
